---- MODULE Spec2Model ----
(***************************************************************************)
(* Model of cmd.py, the release script of a Kodi addon repository: the     *)
(* reconciliation of one addon (update_addon), the bulk update             *)
(* (update_all), the index rebuild (update_addons_xml) and revert.         *)
(*                                                                         *)
(* Strings are sequences of one-character strings, so that split('.'),     *)
(* int(), str.format and the StrictVersion parse are computed as the code  *)
(* computes them.  Python's None and '' are both the empty sequence: the   *)
(* code only ever tests them for truth (lines 92, 94, 158) or compares     *)
(* them with a non-empty commit id (line 134).                             *)
(***************************************************************************)
EXTENDS Naturals, Sequences, FiniteSets

(***************************************************************************)
(* Bounds of the model.                                                    *)
(***************************************************************************)
\* the number of commands one behaviour of SpecRepo runs
MaxRuns == 2

\* the largest minor component among the versions drawn; the smallest is 9,
\* so that the step from one digit to two is among the cases
MaxMinor == 10

(***************************************************************************)
(* Text                                                                    *)
(***************************************************************************)
Digits == <<"0", "1", "2", "3", "4", "5", "6", "7", "8", "9">>

DigitSet == {Digits[i] : i \in 1..10}

DigitVal(ch) == (CHOOSE i \in 1..10 : Digits[i] = ch) - 1

\* str(n) / '{0}'.format(n) of a non-negative int
RECURSIVE Str(_)
Str(n) == IF n < 10 THEN <<Digits[n + 1]>>
          ELSE Str(n \div 10) \o <<Digits[(n % 10) + 1]>>

\* the tokens Python's int() accepts among the strings of the model: a
\* non-empty run of decimal digits
IsDigits(tok) == Len(tok) > 0 /\ \A i \in 1..Len(tok) : tok[i] \in DigitSet

\* int(tok) of a digit string
RECURSIVE Int(_)
Int(tok) == IF Len(tok) = 0 THEN 0
            ELSE 10 * Int(SubSeq(tok, 1, Len(tok) - 1)) + DigitVal(tok[Len(tok)])

\* s.split('.')
RECURSIVE Split(_)
Split(s) ==
    IF \A i \in 1..Len(s) : s[i] # "."
    THEN <<s>>
    ELSE LET k == CHOOSE i \in 1..Len(s) :
                      s[i] = "." /\ \A j \in 1..(i - 1) : s[j] # "."
         IN  <<SubSeq(s, 1, k - 1)>> \o Split(SubSeq(s, k + 1, Len(s)))

\* '.'.join(toks), as '{0}.{1}.{2}'.format builds it
RECURSIVE Join(_)
Join(toks) == IF Len(toks) = 0 THEN <<>>
              ELSE IF Len(toks) = 1 THEN toks[1]
              ELSE toks[1] \o <<".">> \o Join(Tail(toks))

\* s[:n]
Take(s, n) == SubSeq(s, 1, IF n < Len(s) THEN n ELSE Len(s))

\* s * n for a string s
RECURSIVE Repeat(_, _)
Repeat(s, n) == IF n = 0 THEN <<>> ELSE s \o Repeat(s, n - 1)

(***************************************************************************)
(* Program constants                                                       *)
(***************************************************************************)
PROVIDER == <<"MattHuisman.nz">>
AUTO     == <<"A", "U", "T", "O">>
HEAD     == <<"H", "E", "A", "D">>
ShortLen == 7

BRANCH   == "master"

\* the keys of default_meta once line 160 has added 'news'
Keys == {"license", "website", "news"}

DefaultLicense == <<"GNU General Public License, v2">>
DefaultWebsite == <<"https://www.matthuisman.nz">>

\* default_meta as the module body leaves it (lines 15-18)
InitDefaultMeta == [k \in {"license", "website"} |->
                       IF k = "license" THEN DefaultLicense ELSE DefaultWebsite]

(***************************************************************************)
(* Versions.  A version string is a string over digits and '.', the        *)
(* domain of the specification's version comparator; StrictVersion's       *)
(* optional a/b pre-release suffix is not among the inputs drawn.          *)
(***************************************************************************)
\* distutils.version.StrictVersion.parse accepts the string: two or three
\* dot-separated digit runs
StrictValid(s) ==
    LET t == Split(s)
    IN  /\ Len(t) \in {2, 3}
        /\ \A i \in 1..Len(t) : IsDigits(t[i])

\* StrictVersion(s).version: the components as ints, the patch 0 when absent
StrictTuple(s) ==
    LET t == Split(s)
    IN  <<Int(t[1]), Int(t[2]), IF Len(t) = 3 THEN Int(t[3]) ELSE 0>>

\* tuple comparison x <= y of two 3-tuples of ints
TupleLE(x, y) ==
    \/ x[1] < y[1]
    \/ x[1] = y[1] /\ x[2] < y[2]
    \/ x[1] = y[1] /\ x[2] = y[2] /\ x[3] <= y[3]

\* StrictVersion(a) <= StrictVersion(b), line 143
StrictLE(a, b) == TupleLE(StrictTuple(a), StrictTuple(b))

\* line 140 raises ValueError: the unpacking needs exactly three tokens,
\* int(minor) a digit run
AutoRaises(cur) ==
    LET t == Split(cur)
    IN  Len(t) # 3 \/ ~IsDigits(t[2])

\* a bump that carries a full minor into the major
AutoVersionCarry(cur) ==
    LET t == Split(cur)
    IN  IF Int(t[2]) + 1 >= 10
        THEN Join(<<Str(Int(t[1]) + 1), Str(0), Str(0)>>)
        ELSE Join(<<t[1], Str(Int(t[2]) + 1), Str(0)>>)

\* a bump that resets the patch and forgets the minor
AutoVersionSameMinor(cur) ==
    LET t == Split(cur)
    IN  Join(<<t[1], Str(Int(t[2])), Str(0)>>)

\* lines 140-141: '{0}.{1}.{2}'.format(major, int(minor)+1, 0)
AutoVersion(cur) ==
    LET t == Split(cur)
    IN  Join(<<t[1], Str(Int(t[2]) + 1), Str(0)>>)

\* a padding to three components with a fourth, the build number, appended
PadVersionFour(tv) ==
    LET parts == Len(Split(tv))
    IN  tv \o Repeat(<<".", "0">>, 4 - parts)

\* lines 146, 149: target_version += '.0'*(3 - parts)
PadVersion(tv) ==
    LET parts == Len(Split(tv))
    IN  tv \o Repeat(<<".", "0">>, 3 - parts)

\* lines 139-149: the version decision; err "None" when no exception is raised
DecideVersion(tv, cur) ==
    IF tv = AUTO
    THEN IF AutoRaises(cur)
         THEN [err |-> "ValueError", version |-> tv]
         ELSE [err |-> "None", version |-> PadVersion(AutoVersion(cur))]
    ELSE IF ~StrictValid(tv) \/ ~StrictValid(cur)
         THEN [err |-> "ValueError", version |-> tv]
         ELSE IF StrictLE(tv, cur)
              THEN [err |-> "VersionNotHigher", version |-> tv]
              ELSE IF Len(Split(tv)) > 3
                   THEN [err |-> "VersionNotValid", version |-> tv]
                   ELSE [err |-> "None", version |-> PadVersion(tv)]

(***************************************************************************)
(* The embedded checkout's history and the references git resolves         *)
(***************************************************************************)
\* upstream's branch, oldest commit first
History == << <<"1", "c", "0", "f", "f", "e", "e", "1", "a">>,
              <<"2", "b", "a", "d", "c", "a", "f", "e", "b">>,
              <<"3", "d", "e", "a", "d", "b", "e", "e", "f">> >>

Commits == {History[i] : i \in 1..Len(History)}

Idx(c) == CHOOSE i \in 1..Len(History) : History[i] = c

\* a tag of the embedded checkout's repository
TagV1 == <<"v", "1">>

\* what 'git checkout <ref>' moves HEAD to: a tag's commit, or the one commit
\* a hexadecimal abbreviation of at least four characters names; the empty
\* set when git exits non-zero
Resolve(ref) ==
    IF ref = TagV1 THEN {History[1]}
    ELSE IF Len(ref) < 4 THEN {}
    ELSE LET hit == {c \in Commits : Take(c, Len(ref)) = ref}
         IN  IF Cardinality(hit) = 1 THEN hit ELSE {}

\* 'git merge origin/master' on a linear history: fast-forward, or already
\* up to date
Merge(head, tip) == IF Idx(tip) > Idx(head) THEN tip ELSE head

\* the checks of lines 132-135 without the automatic mode's
ResolveErrorPinOnly(tv, tc, cur, c) ==
    IF tc # HEAD /\ tc # Take(c, Len(tc)) THEN "CheckoutMismatch"
    ELSE "None"

\* lines 132-135: which exception, if any, follows rev-parse
ResolveError(tv, tc, cur, c) ==
    IF tc # HEAD /\ tc # Take(c, Len(tc)) THEN "CheckoutMismatch"
    ELSE IF tv = AUTO /\ cur = c THEN "AlreadyUpToDate"
    ELSE "None"

(***************************************************************************)
(* Manifests                                                               *)
(***************************************************************************)
Kid(p, t) == [present |-> p, text |-> t]

NoKid     == Kid(FALSE, <<>>)
EmptyKid  == Kid(TRUE, <<>>)
BlankKid  == Kid(TRUE, <<" ">>)
CustomKid == Kid(TRUE, <<"Custom">>)

NoMeta == [node |-> FALSE, kids |-> [k \in Keys |-> NoKid]]

NoManifest == [present |-> FALSE, version |-> <<>>, provider |-> <<>>,
               meta |-> NoMeta]

\* a fill that sets every child the node has, whatever its text
FillDefaultsOverwrite(meta, dm) ==
    IF ~meta.node THEN meta
    ELSE [meta EXCEPT !.kids =
            [k \in Keys |->
                IF k \in DOMAIN dm /\ meta.kids[k].present
                THEN Kid(TRUE, dm[k])
                ELSE meta.kids[k]]]

\* a fill from the defaults of lines 15-18 alone, the news left out
FillDefaultsNoNews(meta, dm) ==
    IF ~meta.node THEN meta
    ELSE [meta EXCEPT !.kids =
            [k \in Keys |->
                IF k \in DOMAIN dm /\ k # "news" /\ meta.kids[k].present
                                   /\ Len(meta.kids[k].text) = 0
                THEN Kid(TRUE, dm[k])
                ELSE meta.kids[k]]]

\* lines 162-167: every default whose child exists with no text gets the value
FillDefaults(meta, dm) ==
    IF ~meta.node THEN meta
    ELSE [meta EXCEPT !.kids =
            [k \in Keys |->
                IF k \in DOMAIN dm /\ meta.kids[k].present
                                   /\ Len(meta.kids[k].text) = 0
                THEN Kid(TRUE, dm[k])
                ELSE meta.kids[k]]]

\* line 160: the news default
News(tv, tc) == tv \o <<" ", "#">> \o tc \o <<" (", "dd/mm/yyyy", ")\n", "- changes">>

\* line 160: default_meta['news'] = ...
SetNews(dm, text) ==
    [k \in (DOMAIN dm) \cup {"news"} |-> IF k = "news" THEN text ELSE dm[k]]

(***************************************************************************)
(* The repository root                                                     *)
(***************************************************************************)
Entry(n, d) == [name |-> n, dir |-> d]

\* os.listdir(ROOT_DIR), in the order the file system gives: two addons, a
\* directory that is no addon, a plain file, and git's own directory
RootListing == <<Entry("b", TRUE), Entry(".git", TRUE), Entry("c", TRUE),
                 Entry("notes", FALSE), Entry("a", TRUE)>>

\* the directories of the root other than .git
Dirs == {RootListing[i].name : i \in {j \in 1..Len(RootListing) :
                     RootListing[j].dir /\ RootListing[j].name # ".git"}}

\* os.path.exists(os.path.join(ROOT_DIR, name))
PathExists(n) == \E i \in 1..Len(RootListing) : RootListing[i].name = n

\* lines 36-47
RECURSIVE GetAddonsFrom(_)
GetAddonsFrom(l) ==
    IF Len(l) = 0 THEN <<>>
    ELSE IF Head(l).name = ".git" THEN GetAddonsFrom(Tail(l))
    ELSE IF Head(l).dir THEN <<Head(l).name>> \o GetAddonsFrom(Tail(l))
    ELSE GetAddonsFrom(Tail(l))

get_addons == GetAddonsFrom(RootListing)

VARIABLES
    wt,             \* per directory: the working tree's manifest, archives, latest archive
    tracked,        \* per directory: the same files as the superproject's HEAD commit has them
    stage,          \* per directory: the staging directory <addon>/<addon> exists
    src,            \* per directory: "none" (no submodule), "empty" (not initialised), "ready"
    srcHead,        \* per directory: HEAD of the embedded checkout
    pinned,         \* per directory: the commit the superproject records for the submodule
    origin,         \* per directory: the tip of origin/master
    index,          \* addons.xml
    sidecar,        \* addons.xml.md5
    default_meta,   \* the module-level dict of the running process
    pc,             \* where the running process is
    caller,         \* who called update_addon: "do_cmd" or "update_all"
    queue,          \* update_all: the addons still to visit
    attempted,      \* update_all: the addons update_addon was called with, in order
    runs,           \* commands run so far
    exit,           \* how the last process ended
    err,            \* the exception update_addon raised
    at,             \* the step of update_addon that raised it
    printed,        \* update_all: the addons line 202 printed a message for, in order
    addon,          \* update_addon's locals
    requested,      \* target_version and target_commit after lines 92-95
    target_version,
    target_commit,
    cur_version,
    cur_commit,
    commit,
    loaded,         \* the tree of the checkout's manifest as parsed at line 151
    root,           \* the same tree after lines 153-167
    wrote,          \* line 171 ran in this call
    staged,         \* line 186 created the staging directory in this call
    prior           \* whether update_addons_xml ran, and the index as it found it

fsVars    == <<wt, tracked, stage, index, sidecar, prior>>
gitVars   == <<src, srcHead, pinned, origin>>
procVars  == <<default_meta, pc, caller, queue, attempted, printed, runs, exit,
               err, at>>
localVars == <<addon, requested, target_version, target_commit, cur_version,
               cur_commit, commit, loaded, root, wrote, staged>>
vars      == <<fsVars, gitVars, procVars, localVars>>

(***************************************************************************)
(* Inputs                                                                  *)
(***************************************************************************)
V(comps) == Join([i \in 1..Len(comps) |-> Str(comps[i])])

\* versions a committed manifest starts with
BaselineVersions ==
    {V(<<1, 9>>)} \cup {V(<<1, m, p>>) : m \in 9..MaxMinor, p \in {0, 4}}

\* the version argument of 'update': absent, the sentinel, one to four parts
VersionArgs ==
    {<<>>, AUTO, V(<<2>>), V(<<1, 9, 0, 1>>), <<"1", ".", "0", "9">>}
    \cup {V(<<1, m>>) : m \in 9..MaxMinor}
    \cup {V(<<1, m, p>>) : m \in 9..MaxMinor, p \in {0, 4, 5}}

\* the commit argument of 'update': absent, abbreviations, a tag, an unknown id
CommitArgs ==
    {<<>>, TagV1, <<"d", "e", "a", "d">>}
    \cup {Take(History[i], 4) : i \in 1..Len(History)}

\* the addon argument
AddonArgs == {"a", "c", "notes", "zz"}

Plain(v) == [present |-> TRUE, version |-> v, provider |-> PROVIDER,
             meta |-> [node |-> TRUE, kids |-> [k \in Keys |-> CustomKid]]]

\* the metadata the checkout's own manifest can hold
KidStates == <<NoKid, EmptyKid, BlankKid, CustomKid>>

\* no metadata node, or one in which the three children are in three
\* different states, every child in every state once
SrcMetas ==
    {NoMeta} \cup
    {[node |-> TRUE,
      kids |-> [k \in Keys |->
                  KidStates[((i + (CASE k = "license" -> 0
                                     [] k = "website" -> 1
                                     [] k = "news" -> 2)) % 4) + 1]]] : i \in 0..3}

Upstream(m) == [present |-> TRUE, version |-> V(<<0, 0, 1>>),
                provider |-> <<"upstream">>, meta |-> m]

\* the asset files of line 173 an embedded checkout holds
SrcAssets(a) == IF a = "a" THEN {"icon.png"} ELSE {"icon.png", "fanart.jpg"}

Files(m) == [manifest |-> m, zips |-> {}, latest |-> <<>>,
             assets |-> IF m.present THEN {"fanart.jpg"} ELSE {}]

\* the children update_addons_xml collects, lines 60-67
RECURSIVE Roots(_, _)
Roots(names, w) ==
    IF Len(names) = 0 THEN <<>>
    ELSE IF w[Head(names)].manifest.present
         THEN <<w[Head(names)].manifest>> \o Roots(Tail(names), w)
         ELSE Roots(Tail(names), w)

\* hashlib.md5 of a file's text: a digest that names the text
Md5(text) == <<"md5", text>>

NoIndex == [present |-> FALSE, children |-> <<>>]

\* an index some earlier state of the repository left behind
StaleIndex == [present |-> TRUE, children |-> <<Plain(V(<<0, 1, 0>>))>>]

\* the index update_addons_xml builds from the working trees w
IndexOf(w) == [present |-> TRUE, children |-> Roots(get_addons, w)]

\* the repository before any command: addon a's manifest is one of Ms, its
\* branch's tip one of Os, the index current or one of Is, everything committed
InitWith(Ms, Os, Is) ==
    /\ \E m \in Ms :
          wt = [d \in Dirs |-> IF d = "a" THEN Files(m)
                               ELSE IF d = "b" THEN Files(Plain(V(<<2, 3, 0>>)))
                               ELSE Files(NoManifest)]
    /\ tracked = wt
    /\ stage = [d \in Dirs |-> FALSE]
    /\ src \in {f \in [Dirs -> {"none", "empty", "ready"}] :
                    /\ f["c"] = "none" /\ f["a"] # "none" /\ f["b"] = "ready"}
    /\ srcHead = [d \in Dirs |-> History[1]]
    /\ pinned = srcHead
    /\ origin \in {f \in [Dirs -> Commits] :
                    /\ f["a"] \in Os
                    /\ f["b"] = History[2] /\ f["c"] = History[1]}
    /\ \E i \in Is \cup {IndexOf(wt)} :
          /\ index = i
          /\ sidecar = IF i.present THEN Md5(i.children) ELSE <<>>
    /\ prior = [called |-> FALSE, index |-> NoIndex]
    /\ default_meta = InitDefaultMeta
    /\ pc = "idle"
    /\ caller = "none"
    /\ queue = <<>>
    /\ attempted = <<>>
    /\ runs = 0
    /\ exit = "none"
    /\ err = "None"
    /\ at = "none"
    /\ printed = <<>>
    /\ addon = "none"
    /\ requested = [version |-> <<>>, commit |-> <<>>]
    /\ target_version = <<>>
    /\ target_commit = <<>>
    /\ cur_version = <<>>
    /\ cur_commit = <<>>
    /\ commit = <<>>
    /\ loaded = NoManifest
    /\ root = NoManifest
    /\ wrote = FALSE
    /\ staged = FALSE

\* the process is gone, and its locals with it
Exited ==
    /\ pc' = "done"
    /\ err' = "None"
    /\ at' = "none"
    /\ printed' = <<>>
    /\ addon' = "none"
    /\ requested' = [version |-> <<>>, commit |-> <<>>]
    /\ target_version' = <<>>
    /\ target_commit' = <<>>
    /\ cur_version' = <<>>
    /\ cur_commit' = <<>>
    /\ commit' = <<>>
    /\ loaded' = NoManifest
    /\ root' = NoManifest
    /\ wrote' = FALSE
    /\ staged' = FALSE
    /\ queue' = <<>>
    /\ attempted' = <<>>
    /\ caller' = "none"
    /\ default_meta' = InitDefaultMeta

(***************************************************************************)
(* revert, lines 80-89                                                     *)
(***************************************************************************)
\* 'git clean -f': untracked files go, untracked directories stay
Cleaned(w, t) ==
    [manifest |-> IF t.manifest.present THEN w.manifest ELSE NoManifest,
     zips     |-> w.zips \cap t.zips,
     latest   |-> IF t.latest = <<>> THEN <<>> ELSE w.latest,
     assets   |-> w.assets \cap t.assets]

\* 'git checkout .' / 'git reset --hard': tracked files as committed
CheckedOut(w, t) ==
    [manifest |-> IF t.manifest.present THEN t.manifest ELSE w.manifest,
     zips     |-> w.zips \cup t.zips,
     latest   |-> IF t.latest # <<>> THEN t.latest ELSE w.latest,
     assets   |-> w.assets \cup t.assets]

\* the git commands revert(a) runs: lines 84-85, and 88-89 when src exists
RevertSteps(a) == IF src[a] = "none" THEN 2 ELSE 4

\* the working trees once the first n commands of revert(a) have run.  With
\* an uninitialised submodule, src is an empty directory of the superproject
\* and line 89's 'git -C src reset --hard' resets the superproject itself.
RevertWt(a, n) ==
    [d \in Dirs |->
        LET w1 == IF d = a /\ n >= 1 THEN Cleaned(wt[d], tracked[d]) ELSE wt[d]
            w2 == IF d = a /\ n >= 2 THEN CheckedOut(w1, tracked[d]) ELSE w1
        IN  IF n >= 4 /\ src[a] = "empty" THEN CheckedOut(w2, tracked[d]) ELSE w2]

\* the embedded checkouts' HEADs after the same: line 88 checks out the
\* recorded commit of an initialised submodule
RevertHead(a, n) ==
    IF n >= 3 /\ src[a] = "ready" THEN [srcHead EXCEPT ![a] = pinned[a]]
    ELSE srcHead

(***************************************************************************)
(* update_addons_xml, lines 49-78                                          *)
(***************************************************************************)
\* the index md5() finds must exist (line 57 opens it); then the index is
\* built afresh from the manifests of w and the sidecar from its text
UpdateAddonsXml(w) ==
    /\ prior' = [called |-> TRUE, index |-> index]
    /\ IF ~index.present
       THEN /\ exit' = "FileNotFoundError"
            /\ UNCHANGED <<index, sidecar>>
       ELSE /\ index' = IndexOf(w)
            /\ sidecar' = Md5(index'.children)
            /\ exit' = "ok"

(***************************************************************************)
(* update_addon, lines 91-195                                              *)
(***************************************************************************)
Raise(e) ==
    /\ pc' = "ua_raised"
    /\ err' = e
    /\ at' = IF pc \in {"idle", "all_loop"} THEN "ua_enter" ELSE pc

\* lines 91-111: the sentinels, the path checks, the submodule's first checkout
Enter(a, v, c) ==
    /\ addon' = a
    /\ LET tv == IF v = <<>> THEN AUTO ELSE v
           tc == IF c = <<>> THEN HEAD ELSE c
       IN  /\ requested' = [version |-> tv, commit |-> tc]
           /\ target_version' = tv
           /\ target_commit' = tc
    /\ cur_version' = <<>>
    /\ cur_commit' = <<>>
    /\ commit' = <<>>
    /\ loaded' = NoManifest
    /\ root' = NoManifest
    /\ wrote' = FALSE
    /\ staged' = FALSE
    /\ IF ~PathExists(a)
       THEN Raise("NoAddonPath") /\ UNCHANGED <<src, srcHead>>
       ELSE IF a \notin Dirs
       THEN \* a plain file: 'git -C <file>' exits non-zero
            Raise("CalledProcessError") /\ UNCHANGED <<src, srcHead>>
       ELSE IF src[a] = "ready"
       THEN pc' = "ua_revert" /\ err' = "None" /\ at' = "none" /\ UNCHANGED <<src, srcHead>>
       ELSE \/ Raise("CalledProcessError") /\ UNCHANGED <<src, srcHead>>
            \/ /\ src[a] = "empty"
               /\ src' = [src EXCEPT ![a] = "ready"]
               /\ srcHead' = [srcHead EXCEPT ![a] = pinned[a]]
               /\ pc' = "ua_revert" /\ err' = "None" /\ at' = "none"
            \/ \* git exits 0 and there is still no src: line 111
               /\ src[a] = "none"
               /\ Raise("MissingSource") /\ UNCHANGED <<src, srcHead>>

\* line 113
UaRevert ==
    /\ pc = "ua_revert"
    /\ \E n \in 0..RevertSteps(addon) :
          /\ wt' = RevertWt(addon, n)
          /\ srcHead' = RevertHead(addon, n)
          /\ IF n < RevertSteps(addon)
             THEN Raise("CalledProcessError")
             ELSE pc' = "ua_baseline" /\ UNCHANGED <<err, at>>
    /\ UNCHANGED <<tracked, stage, index, sidecar, prior, src, pinned, origin,
                   default_meta, caller, queue, attempted, printed, runs, exit, localVars>>

\* lines 115-122
UaBaseline ==
    /\ pc = "ua_baseline"
    /\ IF ~wt[addon].manifest.present
       THEN /\ cur_version' = V(<<0, 0, 0>>)
            /\ cur_commit' = <<>>
            /\ pc' = "ua_fetch" /\ UNCHANGED <<err, at>>
       ELSE /\ cur_version' = wt[addon].manifest.version
            /\ \/ cur_commit' = srcHead[addon] /\ pc' = "ua_fetch" /\ UNCHANGED <<err, at>>
               \/ UNCHANGED cur_commit /\ Raise("CalledProcessError")
    /\ UNCHANGED <<fsVars, gitVars, default_meta, caller, queue, attempted, printed, runs,
                   exit, addon, requested, target_version, target_commit, commit,
                   loaded, root, wrote, staged>>

\* lines 124-127
UaFetch ==
    /\ pc = "ua_fetch"
    /\ \/ Raise("CalledProcessError") /\ UNCHANGED srcHead
       \/ /\ srcHead' = [srcHead EXCEPT ![addon] = Merge(@, origin[addon])]
          /\ \/ Raise("CalledProcessError")
             \/ pc' = "ua_pin" /\ UNCHANGED <<err, at>>
    /\ UNCHANGED <<fsVars, src, pinned, origin, default_meta, caller, queue,
                   attempted, printed, runs, exit, localVars>>

\* lines 128-129
UaPin ==
    /\ pc = "ua_pin"
    /\ IF target_commit = HEAD
       THEN pc' = "ua_resolve" /\ UNCHANGED <<err, at, srcHead>>
       ELSE IF Resolve(target_commit) = {}
       THEN Raise("CalledProcessError") /\ UNCHANGED srcHead
       ELSE /\ srcHead' = [srcHead EXCEPT ![addon] =
                              CHOOSE c \in Resolve(target_commit) : TRUE]
            /\ pc' = "ua_resolve" /\ UNCHANGED <<err, at>>
    /\ UNCHANGED <<fsVars, src, pinned, origin, default_meta, caller, queue,
                   attempted, printed, runs, exit, localVars>>

\* lines 131-137
UaResolve ==
    /\ pc = "ua_resolve"
    /\ \/ Raise("CalledProcessError") /\ UNCHANGED <<commit, target_commit>>
       \/ /\ commit' = srcHead[addon]
          /\ LET e == ResolveError(target_version, target_commit, cur_commit, commit')
             IN  IF e # "None"
                 THEN Raise(e) /\ UNCHANGED target_commit
                 ELSE /\ target_commit' = Take(commit', ShortLen)
                      /\ pc' = "ua_version" /\ UNCHANGED <<err, at>>
    /\ UNCHANGED <<fsVars, gitVars, default_meta, caller, queue, attempted, printed, runs,
                   exit, addon, requested, target_version, cur_version,
                   cur_commit, loaded, root, wrote, staged>>

\* lines 139-149
UaVersion ==
    /\ pc = "ua_version"
    /\ LET d == DecideVersion(target_version, cur_version)
       IN  IF d.err # "None"
           THEN Raise(d.err) /\ UNCHANGED target_version
           ELSE /\ target_version' = d.version
                /\ pc' = "ua_load" /\ UNCHANGED <<err, at>>
    /\ UNCHANGED <<fsVars, gitVars, default_meta, caller, queue, attempted, printed, runs,
                   exit, addon, requested, target_commit, cur_version,
                   cur_commit, commit, loaded, root, wrote, staged>>

\* lines 153-167 applied to the parsed tree
Rewritten(tree, tv, dm) ==
    [tree EXCEPT !.version = tv, !.provider = PROVIDER,
                 !.meta = FillDefaults(tree.meta, dm)]

\* lines 151-167: parse the checkout's manifest, set the attributes, read the
\* log, set the news default, fill the defaults
UaLoad(Ms) ==
    /\ pc = "ua_load"
    /\ \/ Raise("OSError") /\ UNCHANGED <<loaded, root, default_meta>>
       \/ Raise("CalledProcessError") /\ UNCHANGED <<loaded, root, default_meta>>
       \/ \E m \in Ms :
             /\ loaded' = Upstream(m)
             /\ default_meta' = SetNews(default_meta, News(target_version, target_commit))
             /\ root' = Rewritten(loaded', target_version, default_meta')
             /\ pc' = "ua_write" /\ UNCHANGED <<err, at>>
    /\ UNCHANGED <<fsVars, gitVars, caller, queue, attempted, printed, runs, exit, addon,
                   requested, target_version, target_commit, cur_version,
                   cur_commit, commit, wrote, staged>>

\* lines 169-171
UaWrite ==
    /\ pc = "ua_write"
    /\ \/ Raise("OSError") /\ UNCHANGED <<wt, wrote>>
       \/ /\ wt' = [wt EXCEPT ![addon].manifest = root]
          /\ wrote' = TRUE
          /\ pc' = "ua_assets" /\ UNCHANGED <<err, at>>
    /\ UNCHANGED <<tracked, stage, index, sidecar, prior, gitVars, default_meta,
                   caller, queue, attempted, printed, runs, exit, addon, requested,
                   target_version, target_commit, cur_version, cur_commit,
                   commit, loaded, root, staged>>

\* lines 173-181: each asset is removed from the addon directory and copied
\* again when the checkout has it
UaAssets ==
    /\ pc = "ua_assets"
    /\ \/ Raise("OSError") /\ UNCHANGED wt
       \/ /\ wt' = [wt EXCEPT ![addon].assets = SrcAssets(addon)]
          /\ pc' = "ua_stage" /\ UNCHANGED <<err, at>>
    /\ UNCHANGED <<tracked, stage, index, sidecar, prior, gitVars, default_meta,
                   caller, queue, attempted, printed, runs, exit, localVars>>

\* lines 183-187: the old staging directory goes, the tree and the manifest
\* are copied into a new one
UaStage ==
    /\ pc = "ua_stage"
    /\ \/ \* copytree cannot create the directory
          /\ stage' = [stage EXCEPT ![addon] = FALSE]
          /\ UNCHANGED staged
          /\ Raise("OSError")
       \/ \* copytree fails part-way
          /\ stage' = [stage EXCEPT ![addon] = TRUE]
          /\ staged' = TRUE
          /\ Raise("Error")
       \/ \* the manifest copy of line 187 fails
          /\ stage' = [stage EXCEPT ![addon] = TRUE]
          /\ staged' = TRUE
          /\ Raise("OSError")
       \/ /\ stage' = [stage EXCEPT ![addon] = TRUE]
          /\ staged' = TRUE
          /\ pc' = "ua_archive" /\ UNCHANGED <<err, at>>
    /\ UNCHANGED <<wt, tracked, index, sidecar, prior, gitVars, default_meta,
                   caller, queue, attempted, printed, runs, exit, addon, requested,
                   target_version, target_commit, cur_version, cur_commit,
                   commit, loaded, root, wrote>>

\* lines 189-191
UaArchive ==
    /\ pc = "ua_archive"
    /\ \/ Raise("OSError") /\ UNCHANGED <<wt, stage>>
       \/ /\ wt' = [wt EXCEPT ![addon].zips = @ \cup {target_version}]
          /\ stage' = [stage EXCEPT ![addon] = FALSE]
          /\ pc' = "ua_latest" /\ UNCHANGED <<err, at>>
    /\ UNCHANGED <<tracked, index, sidecar, prior, gitVars, default_meta, caller,
                   queue, attempted, printed, runs, exit, localVars>>

\* lines 193-195
UaLatest ==
    /\ pc = "ua_latest"
    /\ \/ Raise("OSError") /\ UNCHANGED wt
       \/ /\ wt' = [wt EXCEPT ![addon].latest = target_version]
          /\ pc' = "ua_returned" /\ UNCHANGED <<err, at>>
    /\ UNCHANGED <<tracked, stage, index, sidecar, prior, gitVars, default_meta,
                   caller, queue, attempted, printed, runs, exit, localVars>>

(***************************************************************************)
(* update_all, lines 197-202                                               *)
(***************************************************************************)
\* the exceptions update_addon raises, all of them subclasses of Exception
ExceptionKinds == {"NoAddonPath", "MissingSource", "CalledProcessError",
                   "CheckoutMismatch", "AlreadyUpToDate", "ValueError",
                   "VersionNotHigher", "VersionNotValid", "OSError", "Error"}

\* a handler for the expected outcome alone
CaughtUpToDateOnly(e) == e = "AlreadyUpToDate"

\* line 201: except Exception
Caught(e) == e \in ExceptionKinds

\* line 198: the listing is read once
UpdateAll ==
    /\ pc = "idle"
    /\ runs' = runs + 1
    /\ default_meta' = InitDefaultMeta
    /\ caller' = "update_all"
    /\ queue' = get_addons
    /\ attempted' = <<>>
    /\ printed' = <<>>
    /\ exit' = "running"
    /\ pc' = "all_loop"
    /\ UNCHANGED <<fsVars, gitVars, err, at, localVars>>

\* lines 198-200: the next addon
AllCall ==
    /\ pc = "all_loop" /\ queue # <<>>
    /\ attempted' = Append(attempted, Head(queue))
    /\ queue' = Tail(queue)
    /\ Enter(Head(queue), <<>>, <<>>)
    /\ UNCHANGED <<fsVars, pinned, origin, default_meta, caller, printed, runs, exit>>

\* lines 201-202
AllCatch ==
    /\ pc = "ua_raised" /\ caller = "update_all"
    /\ IF Caught(err)
       THEN /\ printed' = Append(printed, addon)
            /\ pc' = "all_loop" /\ UNCHANGED exit
       ELSE /\ pc' = "all_done" /\ exit' = err
            /\ UNCHANGED printed
    /\ UNCHANGED <<fsVars, gitVars, default_meta, caller, queue, attempted, runs,
                   err, at, localVars>>

\* update_addon returned to the loop
AllReturned ==
    /\ pc = "ua_returned" /\ caller = "update_all"
    /\ pc' = "all_loop"
    /\ UNCHANGED <<fsVars, gitVars, default_meta, caller, queue, attempted, printed, runs,
                   exit, err, at, localVars>>

\* the loop is exhausted
AllDone ==
    /\ pc = "all_loop" /\ queue = <<>>
    /\ pc' = "all_done"
    /\ exit' = "ok"
    /\ UNCHANGED <<fsVars, gitVars, default_meta, caller, queue, attempted, printed, runs,
                   err, at, localVars>>

\* update_all is over, and the process that called it
AllExit ==
    /\ pc = "all_done"
    /\ Exited
    /\ UNCHANGED <<fsVars, gitVars, runs, exit>>

(***************************************************************************)
(* do_cmd, lines 204-241: one process per command                          *)
(***************************************************************************)
\* 'update <addon> [version] [commit]', lines 215-217
DoCmdUpdate(As, Vs, Cs) ==
    /\ pc = "idle"
    /\ runs' = runs + 1
    /\ default_meta' = InitDefaultMeta
    /\ caller' = "do_cmd"
    /\ exit' = "running"
    /\ \E a \in As, v \in Vs, c \in Cs : Enter(a, v, c)
    /\ UNCHANGED <<fsVars, pinned, origin, queue, attempted, printed>>

\* line 218, once update_addon has returned
DoCmdReturned ==
    /\ pc = "ua_returned" /\ caller = "do_cmd"
    /\ UpdateAddonsXml(wt)
    /\ Exited
    /\ UNCHANGED <<wt, tracked, stage, gitVars, runs>>

\* lines 238-241: the exception ends the process
DoCmdRaised ==
    /\ pc = "ua_raised" /\ caller = "do_cmd"
    /\ exit' = err
    /\ Exited
    /\ UNCHANGED <<fsVars, gitVars, runs>>

\* 'update xml', lines 212-213
DoCmdXml ==
    /\ pc = "idle"
    /\ pc' = "done"
    /\ runs' = runs + 1
    /\ UpdateAddonsXml(wt)
    /\ UNCHANGED <<wt, tracked, stage, gitVars, default_meta, caller, queue,
                   attempted, printed, err, at, localVars>>

\* 'revert <addon>', lines 221-224
DoCmdRevert ==
    /\ pc = "idle"
    /\ pc' = "done"
    /\ runs' = runs + 1
    /\ \E a \in AddonArgs :
          IF a \notin Dirs
          THEN /\ exit' = "CalledProcessError"
               /\ UNCHANGED <<wt, srcHead, index, sidecar, prior>>
          ELSE \E n \in 0..RevertSteps(a) :
                  /\ wt' = RevertWt(a, n)
                  /\ srcHead' = RevertHead(a, n)
                  /\ IF n < RevertSteps(a)
                     THEN /\ exit' = "CalledProcessError"
                          /\ UNCHANGED <<index, sidecar, prior>>
                     ELSE UpdateAddonsXml(wt')
    /\ UNCHANGED <<tracked, stage, src, pinned, origin, default_meta, caller,
                   queue, attempted, printed, err, at, localVars>>

\* 'push', lines 226-230, with the working tree staged: the commit records
\* the files and the checkouts' HEADs
DoCmdPush ==
    /\ pc = "idle"
    /\ pc' = "done"
    /\ runs' = runs + 1
    /\ \/ exit' = "CalledProcessError" /\ UNCHANGED <<tracked, pinned>>
       \/ /\ tracked' = wt
          /\ pinned' = [d \in Dirs |-> IF src[d] = "ready" THEN srcHead[d]
                                       ELSE pinned[d]]
          /\ exit' = "ok"
    /\ UNCHANGED <<wt, stage, index, sidecar, prior, src, srcHead, origin,
                   default_meta, caller, queue, attempted, printed, err, at, localVars>>

\* 'init', lines 232-233
DoCmdInit ==
    /\ pc = "idle"
    /\ pc' = "done"
    /\ runs' = runs + 1
    /\ \/ exit' = "CalledProcessError" /\ UNCHANGED <<src, srcHead>>
       \/ /\ src' = [d \in Dirs |-> IF src[d] = "empty" THEN "ready" ELSE src[d]]
          /\ srcHead' = [d \in Dirs |-> IF src[d] # "none" THEN pinned[d]
                                        ELSE srcHead[d]]
          /\ exit' = "ok"
    /\ UNCHANGED <<fsVars, pinned, origin, default_meta, caller, queue,
                   attempted, printed, err, at, localVars>>

\* any other verb, lines 235-236
DoCmdUnknown ==
    /\ pc = "idle"
    /\ pc' = "done"
    /\ runs' = runs + 1
    /\ exit' = "UnknownCommand"
    /\ UNCHANGED <<fsVars, gitVars, default_meta, caller, queue, attempted, printed,
                   err, at, localVars>>

\* upstream publishes the next commit of an addon's branch
UpstreamPush(As) ==
    /\ pc = "idle"
    /\ \E a \in As :
          /\ src[a] # "none"
          /\ Idx(origin[a]) < Len(History)
          /\ origin' = [origin EXCEPT ![a] = History[Idx(@) + 1]]
    /\ UNCHANGED <<fsVars, src, srcHead, pinned, procVars, localVars>>

\* the shell is back at its prompt
Prompt ==
    /\ pc = "done"
    /\ pc' = "idle"
    /\ exit' = "none"
    /\ prior' = [called |-> FALSE, index |-> NoIndex]
    /\ UNCHANGED <<wt, tracked, stage, index, sidecar, gitVars, default_meta,
                   caller, queue, attempted, printed, runs, err, at, localVars>>

(***************************************************************************)
(* One 'update' process, from every repository state of Init               *)
(***************************************************************************)
Init == InitWith({NoManifest} \cup {Plain(v) : v \in BaselineVersions},
                 {History[1], History[2]}, {})

Next ==
    \/ runs = 0 /\ DoCmdUpdate(AddonArgs, VersionArgs, CommitArgs)
    \/ DoCmdReturned \/ DoCmdRaised
    \/ UaRevert \/ UaBaseline \/ UaFetch \/ UaPin \/ UaResolve \/ UaVersion
    \/ UaLoad(SrcMetas) \/ UaWrite \/ UaAssets \/ UaStage \/ UaArchive \/ UaLatest
    \/ UpstreamPush({"a"})
    \/ Prompt

Spec == Init /\ [][Next]_vars

(***************************************************************************)
(* Up to MaxRuns commands of any kind, one after the other                 *)
(***************************************************************************)
FewVersions == {<<>>, V(<<1, 10>>), V(<<1, 9, 0>>)}
FewCommits  == {<<>>}
FewAddons   == {"a", "c"}
FewMetas    == {[node |-> TRUE,
                 kids |-> [k \in Keys |-> IF k = "news" THEN EmptyKid ELSE CustomKid]]}

InitRepo == InitWith({NoManifest, Plain(V(<<1, 9, 0>>))}, {History[1]},
                     {NoIndex, StaleIndex})

NextRepo ==
    \/ runs < MaxRuns /\ DoCmdUpdate(FewAddons, FewVersions, FewCommits)
    \/ runs < MaxRuns /\ DoCmdXml
    \/ runs < MaxRuns /\ DoCmdRevert
    \/ runs < MaxRuns /\ DoCmdPush
    \/ runs < MaxRuns /\ DoCmdInit
    \/ runs < MaxRuns /\ DoCmdUnknown
    \/ runs < MaxRuns /\ UpdateAll
    \/ DoCmdReturned \/ DoCmdRaised
    \/ AllCall \/ AllCatch \/ AllReturned \/ AllDone \/ AllExit
    \/ UaRevert \/ UaBaseline \/ UaFetch \/ UaPin \/ UaResolve \/ UaVersion
    \/ UaLoad(FewMetas) \/ UaWrite \/ UaAssets \/ UaStage \/ UaArchive \/ UaLatest
    \/ UpstreamPush({"a"})
    \/ Prompt

SpecRepo == InitRepo /\ [][NextRepo]_vars

(***************************************************************************)
(* What the properties below speak of                                      *)
(***************************************************************************)
\* update_addon has returned or raised, and its caller has not yet gone on
Finished == pc \in {"ua_returned", "ua_raised"}

\* the call asked for automatic versioning
Auto == requested.version = AUTO

\* the call got as far as the version decision of line 139
Decided ==
    \/ pc \in {"ua_version", "ua_load", "ua_write", "ua_assets", "ua_stage",
               "ua_archive", "ua_latest", "ua_returned"}
    \/ pc = "ua_raised" /\ at \in {"ua_version", "ua_load", "ua_write", "ua_assets",
                                   "ua_stage", "ua_archive", "ua_latest"}

\* the manifest of the addon being updated, as it is on disk
Written == wt[addon].manifest

\* a dotted string of digit runs as a tuple of numbers
NumTuple(s) == [i \in 1..Len(Split(s)) |-> Int(Split(s)[i])]

\* t extended with zero components to n components
ZeroPad(t, n) == t \o [i \in 1..(n - Len(t)) |-> 0]

\* x before y, component by component, for tuples of one length
LexLess(x, y) ==
    \E i \in 1..Len(x) : x[i] < y[i] /\ \A j \in 1..(i - 1) : x[j] = y[j]

\* version a is lower than version b as numeric tuples, the shorter padded
VersionLess(a, b) ==
    LET x == NumTuple(a)
        y == NumTuple(b)
        n == IF Len(x) > Len(y) THEN Len(x) ELSE Len(y)
    IN  LexLess(ZeroPad(x, n), ZeroPad(y, n))

VersionLeq(a, b) == ~VersionLess(b, a)

\* the value a default key stands for in the call under way
DefaultOf(k) ==
    CASE k = "license" -> DefaultLicense
      [] k = "website" -> DefaultWebsite
      [] k = "news"    -> News(Written.version, Take(commit, ShortLen))

\* the text is empty or nothing but blanks
Blank(text) == \A i \in 1..Len(text) : text[i] = " "

\* the directories of the root other than .git, in listing order
RECURSIVE ListedDirs(_)
ListedDirs(i) ==
    IF i > Len(RootListing) THEN <<>>
    ELSE (IF RootListing[i].dir /\ RootListing[i].name # ".git"
          THEN <<RootListing[i].name>> ELSE <<>>) \o ListedDirs(i + 1)

\* the manifests on disk of the directories d[i..], in order
RECURSIVE ManifestsOf(_, _)
ManifestsOf(d, i) ==
    IF i > Len(d) THEN <<>>
    ELSE (IF wt[d[i]].manifest.present THEN <<wt[d[i]].manifest>> ELSE <<>>)
         \o ManifestsOf(d, i + 1)

(***************************************************************************)
(* C1                                                                      *)
(***************************************************************************)
\* the commit pin of the call is not a prefix of the commit rev-parse gave
PinMismatch ==
    requested.commit # HEAD /\ requested.commit # Take(commit, Len(requested.commit))

\* update_addon ran in automatic mode and found, at line 131, the commit the
\* baseline had
UpToDateCase == Finished /\ Auto /\ commit # <<>> /\ commit = cur_commit

\* C1 as stated: in automatic mode, when the checkout's commit after
\* fetch, merge and pin equals the baseline commit, update_addon fails with
\* the already-up-to-date exception of line 135, and neither the manifest
\* write nor the packaging is reached.
C1_AsStated ==
    UpToDateCase =>
        /\ pc = "ua_raised" /\ err = "AlreadyUpToDate"
        /\ ~wrote /\ ~staged

\* C1 amended: in that case update_addon fails at lines 132-135, with the
\* checkout-mismatch exception when a commit pin was given that is no prefix
\* of the resolved commit and with the already-up-to-date exception
\* otherwise; either way the manifest is as the baseline read it, and no
\* manifest write and no packaging step is reached.
C1_UpToDateFails ==
    UpToDateCase =>
        /\ pc = "ua_raised" /\ at = "ua_resolve"
        /\ err = IF PinMismatch THEN "CheckoutMismatch" ELSE "AlreadyUpToDate"
        /\ ~wrote /\ ~staged
        /\ Written.present /\ Written.version = cur_version
        /\ wt[addon].zips = tracked[addon].zips

C1_Witness == UpToDateCase /\ err = "AlreadyUpToDate" /\ requested.commit # HEAD

(***************************************************************************)
(* C2                                                                      *)
(***************************************************************************)
\* update_addon was given a version that is not above the baseline's
NotHigherCase ==
    /\ Finished /\ ~Auto /\ cur_version # <<>>
    /\ VersionLeq(requested.version, cur_version)

\* C2 as stated: given an explicit target version lower than or equal to
\* the baseline version as numeric tuples, update_addon, once it decides the
\* version, fails with the not-higher exception of line 144 and writes no
\* manifest.
C2_AsStated ==
    (NotHigherCase /\ Decided) =>
        /\ pc = "ua_raised" /\ err = "VersionNotHigher"
        /\ ~wrote

\* What the code does in C2's case: given such a target, update_addon fails
\* and writes no manifest; when the call gets as far as the version decision,
\* a target of two or three components fails with the not-higher exception
\* of line 144, and a target of one or of four components makes
\* StrictVersion raise ValueError at line 143, before the comparison and
\* before the component count of lines 146-148.
C2_NotHigherFails ==
    /\ NotHigherCase => (pc = "ua_raised" /\ ~wrote)
    /\ (NotHigherCase /\ Decided /\ Len(Split(requested.version)) \in {2, 3}) =>
           (err = "VersionNotHigher" /\ at = "ua_version")
    /\ (NotHigherCase /\ Decided /\ Len(Split(requested.version)) \notin {2, 3}) =>
           (err = "ValueError" /\ at = "ua_version")

\* a target of four components, not above the baseline, was refused as an
\* invalid version rather than as not higher
C2_Witness ==
    /\ NotHigherCase /\ Decided
    /\ requested.version = V(<<1, 9, 0, 1>>) /\ cur_version = V(<<1, 9, 4>>)
    /\ err = "ValueError"

(***************************************************************************)
(* C3                                                                      *)
(***************************************************************************)
\* C3: in automatic mode the version written is major.(minor+1).0 of the
\* baseline major.minor.patch: the major kept as it is, the minor one more
\* with no carry (1.9.4 gives 1.10.0), the patch 0.
C3_AutoBump ==
    (wrote /\ Auto) =>
        LET b == Split(cur_version)
            w == Split(Written.version)
        IN  /\ Len(b) = 3 /\ Len(w) = 3
            /\ w[1] = b[1]
            /\ IsDigits(w[2]) /\ Int(w[2]) = Int(b[2]) + 1
            /\ w[3] = <<"0">>
            /\ cur_version = <<"1", ".", "9", ".", "4">>
                   => Written.version = <<"1", ".", "1", "0", ".", "0">>

C3_Witness ==
    /\ wrote /\ Auto
    /\ cur_version = <<"1", ".", "9", ".", "4">>
    /\ Written.version = <<"1", ".", "1", "0", ".", "0">>

(***************************************************************************)
(* C4                                                                      *)
(***************************************************************************)
\* C4: a default key whose child the loaded metadata node has with
\* non-empty text has the same text in the manifest written.
C4_NonEmptyKept ==
    wrote =>
        \A k \in Keys :
            (loaded.meta.node /\ loaded.meta.kids[k].present
                              /\ Len(loaded.meta.kids[k].text) > 0)
            => Written.meta.kids[k] = loaded.meta.kids[k]

\* a manifest was written in which one child kept its text while another
\* was given its default
C4_Witness ==
    /\ wrote
    /\ \E k, j \in Keys :
          /\ loaded.meta.kids[k] = CustomKid /\ Written.meta.kids[k] = CustomKid
          /\ loaded.meta.kids[j] = EmptyKid /\ Written.meta.kids[j] # EmptyKid

PadTokens(toks, n) == toks \o [i \in 1..(n - Len(toks)) |-> <<"0">>]

\* C5 as stated: an explicit target of at most three components is written
\* padded with zero components to three and with a fourth zero component
\* appended.
C5_AsStated ==
    (wrote /\ ~Auto /\ Len(Split(requested.version)) <= 3) =>
        Split(Written.version) = PadTokens(Split(requested.version), 3) \o << <<"0">> >>

\* C5 amended: an explicit target that is written has two or three
\* components (one component is refused as an invalid version), is higher
\* than the baseline, and is written padded with zero components to exactly
\* three components; no fourth component is appended.
C5_PaddedToThree ==
    (wrote /\ ~Auto) =>
        /\ Len(Split(requested.version)) \in {2, 3}
        /\ VersionLess(cur_version, requested.version)
        /\ Split(Written.version) = PadTokens(Split(requested.version), 3)
        /\ Len(Split(Written.version)) = 3

C5_Witness ==
    /\ wrote /\ ~Auto
    /\ requested.version = V(<<1, 10>>)
    /\ Written.version = V(<<1, 10, 0>>)

(***************************************************************************)
(* C6                                                                      *)
(***************************************************************************)
\* C6 as stated: once update_addon has created the staging directory, the
\* directory is gone when update_addon returns or raises.
C6_AsStated == (Finished /\ staged) => ~stage[addon]

\* What the code does in C6's case: the directory is gone when update_addon
\* returns; when it raises at lines 185-189 the directory stays.
C6_CleanedOnReturn ==
    /\ (pc = "ua_returned" /\ staged) => ~stage[addon]
    /\ (pc = "ua_raised" /\ staged /\ at \in {"ua_stage", "ua_archive"}) => stage[addon]

\* make_archive raised and the staging directory is still there
C6_Witness == pc = "ua_raised" /\ staged /\ at = "ua_archive" /\ stage[addon]

(***************************************************************************)
(* C7                                                                      *)
(***************************************************************************)
\* C7 as stated: whatever index update_addons_xml finds, absent, stale or
\* current, it completes and leaves an index whose children are the
\* manifests on disk of the root's directories other than .git, one each,
\* in listing order.
C7_AsStated ==
    (pc = "done" /\ prior.called) =>
        /\ exit = "ok"
        /\ index.present
        /\ index.children = ManifestsOf(ListedDirs(1), 1)

\* What the code does in C7's case: with an index file to read the rebuild
\* completes as stated; with none, md5 at line 57 raises FileNotFoundError
\* and no index is written.
C7_RebuildsOverExisting ==
    (pc = "done" /\ prior.called) =>
        IF prior.index.present
        THEN /\ exit = "ok" /\ index.present
             /\ index.children = ManifestsOf(ListedDirs(1), 1)
             /\ sidecar = Md5(index.children)
        ELSE exit = "FileNotFoundError" /\ ~index.present

\* the rebuild was called with no index file and raised
C7_Witness ==
    pc = "done" /\ prior.called /\ ~prior.index.present /\ exit = "FileNotFoundError"

(***************************************************************************)
(* C8                                                                      *)
(***************************************************************************)
\* C8: update_all calls update_addon for the directories get_addons gives,
\* each once and in listing order, whether or not an earlier call raised,
\* and ends without raising.
C8_BulkContinues ==
    caller = "update_all" =>
        /\ attempted \o queue = ListedDirs(1)
        /\ pc = "all_done" =>
               /\ attempted = ListedDirs(1)
               /\ exit = "ok"

\* update_all is over: the first two calls raised, the third wrote a manifest
C8_Witness ==
    /\ pc = "all_done"
    /\ printed = <<"b", "c">>
    /\ addon = "a" /\ wrote

(***************************************************************************)
(* C10                                                                     *)
(***************************************************************************)
\* the version a directory's committed manifest has, 0.0.0 when it has none
CommittedVersion(t, d) ==
    IF t[d].manifest.present THEN t[d].manifest.version ELSE V(<<0, 0, 0>>)

\* a call that has written the manifest wrote a version above its baseline
C10_PerRun == wrote => VersionLess(cur_version, Written.version)

\* a commit that changes an addon's manifest raises its version
C10_PerCommit ==
    \A d \in Dirs :
        tracked'[d].manifest # tracked[d].manifest
        => VersionLess(CommittedVersion(tracked, d), CommittedVersion(tracked', d))

\* C10: every call of update_addon that reaches the manifest write writes a
\* version higher than the baseline it read, as numeric tuples; and so the
\* version of an addon's committed manifest rises with every commit of a
\* result.
C10_VersionIncreases == []C10_PerRun /\ [][C10_PerCommit]_vars

\* an update's result has been committed
C10_Witness ==
    /\ tracked["a"].manifest.present
    /\ VersionLess(V(<<1, 9, 0>>), tracked["a"].manifest.version)

====
